---- MODULE Spec2Model ----
(***************************************************************************)
(* Model of the Instagram profile scraper:                                 *)
(*   - app/proxy_manager.py   : ProxyManager (ring of hosts, cooldown map) *)
(*   - scraper/spiders/instagram_profile.py : the four-strategy spider     *)
(*   - app/scraper_service.py : scrape_instagram_profile (orchestrator)    *)
(*   - app/main.py, app/persistence.py : the endpoint and the snapshots    *)
(*                                                                         *)
(* The specifications share the state:                                     *)
(*   SpecPool : threads calling get_next_host / mark_bad statement by      *)
(*              statement, with the threading.Lock of the manager;         *)
(*   Spec     : one scrape_instagram_profile call, the spider's callbacks  *)
(*              and the pool operations as whole calls;                    *)
(*   SpecRing : get_next_host and mark_bad as whole calls on one manager,  *)
(*              the results of consecutive get_next_host calls recorded;   *)
(*   SpecServe: app/main.py get_instagram_profile with app/persistence.py, *)
(*              the result of scrape_instagram_profile being an input.     *)
(*   SpecCalls: two scrape_instagram_profile calls at the same time on one *)
(*              ProxyManager, a chain run being one step;                  *)
(*   SpecFair, SpecPoolFair: Spec and SpecPool with weak fairness.         *)
(* An exception raised in a spider callback or errback is taken to be the  *)
(* outcome of _run_spider, as the except clauses of the orchestrator       *)
(* expect.                                                                 *)
(***************************************************************************)
EXTENDS Integers, Sequences, FiniteSets, TLC

\* ------------------------------------------------------------------ bounds
Hosts == {"A", "B", "C"}
MaxPool == 2
MaxTime == 2
MaxDur == 2
MaxListing == 1
ProxyRetryLimit == 2
MaxTicks == 1
MaxReturns == 6
MaxStore == 2

\* ------------------------------------------------- program constants
CooldownSeconds == 600
BackoffSeconds == 2
TickStep == CooldownSeconds

Threads == {"t1", "t2"}
None == "None"

\* where a call of the coroutine runs: in the coroutine itself, on the thread
\* of the event loop, or in the worker thread of asyncio.to_thread
Inline == "event_loop"
to_thread == "worker"
NetOp(op, ctx) == [op |-> op, ctx |-> ctx]

\* no get_next_host call recorded: the time of the first one, the results
NoReturns == [start |-> 0, hosts |-> <<>>]

\* no request answered yet
NotServed ==
    [username |-> <<>>, handle |-> <<>>, result |-> "none", status |-> 0,
     row |-> 0, is_cached |-> FALSE, name |-> <<>>]

\* the coroutines that run scrape_instagram_profile at the same time
Calls == {"c1", "c2"}

\* no spider: _run_spider of a call is not running
NoSpider ==
    [st |-> "none", username |-> <<>>, result_buffer |-> "none",
     proxy_url |-> "None"]

\* what a call returned or raised: nothing yet
NoResult == [kind |-> "none", username |-> <<>>, by |-> "none"]

\* a coroutine that runs no call
NoCall ==
    [pc |-> "idle", username |-> <<>>, proxy_attempts |-> 0, host |-> "None",
     result_buffer |-> <<>>, failure_reasons |-> <<>>, spider |-> NoSpider,
     outcome |-> NoResult]
NoCalls == [c \in Calls |-> NoCall]

VARIABLES
    pool,             \* ProxyManager._pool, a deque: head is the cursor
    bad_hosts,        \* ProxyManager._bad_hosts: host -> available-again time
    now,              \* time.time()
    lock,             \* ProxyManager._lock: "free" or the holding thread
    tpc,              \* per thread: position inside get_next_host / mark_bad
    tloc,             \* per thread: locals of the running pool call
    pc,               \* position inside scrape_instagram_profile
    proxy_attempts,   \* local proxy_attempts
    host,             \* local host
    result_buffer,    \* local result_buffer
    failure_reasons,  \* local failure_reasons
    outcome,          \* what the call returned or raised
    stage,            \* spider: the requests in flight
    last,             \* what the transport handed to the spider last (history)
    crawl,            \* spider: outcome of the running _run_spider
    spider_proxy,     \* spider.proxy_url of the running crawl
    requested,        \* strategies requested in the running crawl (history)
    trace,            \* steps of the current call (history)
    socks_configured, \* Settings.socks5_url has port and credentials
    ticks,            \* clock jumps taken so far
    netops,           \* network operations of the call and where they ran (history)
    returns,          \* results of consecutive get_next_host calls (history)
    store,            \* rows of the table profile_snapshots, in insertion order
    served,           \* the request get_instagram_profile answered last
    calls             \* concurrent scrape_instagram_profile calls: their locals

poolVars == <<pool, bad_hosts, now>>
threadVars == <<lock, tpc, tloc>>
callVars == <<pc, proxy_attempts, host, result_buffer, failure_reasons,
              outcome, trace, socks_configured, ticks, netops, returns,
                   store, served, calls>>
spiderVars == <<stage, crawl, spider_proxy, requested, last>>
vars == <<pool, bad_hosts, now, lock, tpc, tloc, pc, proxy_attempts,
          host, result_buffer, failure_reasons, outcome, stage, crawl,
          spider_proxy, requested, last, trace, socks_configured, ticks,
          netops, returns, store, served, calls>>

\* ------------------------------------------------------------ sequences
SeqsUpTo(S, n) == UNION {[1..k -> S] : k \in 0..n}

\* mutant: the deque is not rotated
rotate_None(p) == p

\* deque.rotate(-1): the head goes to the tail
rotate(p) == IF p = <<>> THEN p ELSE Append(Tail(p), Head(p))

\* ------------------------------------------------------------ ProxyManager
\* `available_at and available_at > now` of get_next_host
InCooldown(b, h, n) == h \in DOMAIN b /\ b[h] # 0 /\ b[h] > n

\* _refresh_pool: a failed or empty listing leaves the pool as it is
refresh_pool(p, listing) == IF listing # <<>> THEN p \o listing ELSE p

\* mutant: the host is returned without self._pool.rotate(-1)
RECURSIVE Scan_NoRotate(_, _, _, _, _)
Scan_NoRotate(p, b, n, attempts, max_attempts) ==
    IF p # <<>> /\ attempts <= max_attempts
    THEN IF InCooldown(b, Head(p), n)
         THEN Scan_NoRotate(rotate(p), b, n, attempts + 1, max_attempts)
         ELSE [found |-> TRUE, pool |-> p, ret |-> Head(p)]
    ELSE [found |-> FALSE, pool |-> p, ret |-> None]

\* the while loop of get_next_host, from `attempts` on
RECURSIVE Scan(_, _, _, _, _)
Scan(p, b, n, attempts, max_attempts) ==
    IF p # <<>> /\ attempts <= max_attempts
    THEN IF InCooldown(b, Head(p), n)
         THEN Scan(rotate(p), b, n, attempts + 1, max_attempts)
         ELSE [found |-> TRUE, pool |-> rotate(p), ret |-> Head(p)]
    ELSE [found |-> FALSE, pool |-> p, ret |-> None]

\* mutant: an empty ring after the refresh is answered with a default host
AfterScan_DefaultHost(p, listing) ==
    LET p1 == IF p = <<>> THEN refresh_pool(p, listing) ELSE p
    IN  IF p1 = <<>>
        THEN [pool |-> p1, ret |-> "A"]
        ELSE [pool |-> rotate(p1), ret |-> Head(p1)]

\* the statements of get_next_host after the loop
AfterScan(p, listing) ==
    LET p1 == IF p = <<>> THEN refresh_pool(p, listing) ELSE p
    IN  IF p1 = <<>>
        THEN [pool |-> p1, ret |-> None]
        ELSE [pool |-> rotate(p1), ret |-> Head(p1)]

\* get_next_host as one call under the lock
get_next_host(p, b, n, listing) ==
    LET s == Scan(p, b, n, 0, Len(p))
    IN  IF s.found THEN [pool |-> s.pool, ret |-> s.ret]
        ELSE AfterScan(s.pool, listing)

\* get_next_host reaches line 67: the scan found nothing and the ring is
\* empty, so _refresh_pool is called
Refreshes(p, b, n) == ~Scan(p, b, n, 0, Len(p)).found /\ p = <<>>

\* mutant: the map is replaced by the one entry
mark_bad_Only(b, h, cooldown_seconds, n) ==
    [x \in {h} |-> n + cooldown_seconds]

\* mark_bad as one call under the lock
mark_bad(b, h, cooldown_seconds, n) ==
    [x \in DOMAIN b \cup {h} |-> IF x = h THEN n + cooldown_seconds ELSE b[x]]

Listings == SeqsUpTo(Hosts, MaxListing)
Durations == 1..MaxDur

\* ProxyManager.__init__: the configured pool, refreshed when empty
InitialPools ==
    {refresh_pool(p, l) : p \in {<<>>}, l \in Listings}
        \cup (SeqsUpTo(Hosts, MaxPool) \ {<<>>})

\* ------------------------------------------------- threads on one manager
\* locals of a thread that runs no pool call
NoLocals ==
    [op |-> "none", now |-> 0, attempts |-> 0, max_attempts |-> 0,
     host |-> None, dur |-> 0, listing |-> <<>>, ret |-> None,
     spool |-> <<>>, sbad |-> <<>>, refreshed |-> FALSE]

\* mutant: the with block entered without waiting for the lock
AcquireNoMutex(t) == lock' = t

\* `with self._lock:` entered
Acquire(t) == lock = "free" /\ lock' = t

\* get_next_host, lines 52-55: lock taken, now and max_attempts read
GnhEnter(t) ==
    /\ tpc[t] = "idle"
    /\ Acquire(t)
    /\ tpc' = [tpc EXCEPT ![t] = "loop"]
    /\ tloc' = [tloc EXCEPT ![t] =
                  [NoLocals EXCEPT !.op = "get_next_host", !.now = now,
                                   !.max_attempts = Len(pool),
                                   !.spool = pool, !.sbad = bad_hosts]]
    /\ UNCHANGED <<pool, bad_hosts, now, callVars, spiderVars>>

\* mutant: a host in cooldown is taken out of the deque
GnhLoop_Discard(t) ==
    /\ tpc[t] = "loop"
    /\ IF pool # <<>> /\ tloc[t].attempts <= tloc[t].max_attempts
       THEN IF InCooldown(bad_hosts, Head(pool), tloc[t].now)
            THEN /\ pool' = Tail(pool)
                 /\ tloc' = [tloc EXCEPT ![t].attempts = @ + 1,
                                         ![t].host = Head(pool)]
                 /\ tpc' = tpc
            ELSE /\ pool' = rotate(pool)
                 /\ tloc' = [tloc EXCEPT ![t].attempts = @ + 1,
                                         ![t].host = Head(pool),
                                         ![t].ret = Head(pool)]
                 /\ tpc' = [tpc EXCEPT ![t] = "ret"]
       ELSE /\ tpc' = [tpc EXCEPT ![t] = "after"]
            /\ UNCHANGED <<pool, tloc>>
    /\ UNCHANGED <<bad_hosts, now, lock, callVars, spiderVars>>

\* get_next_host, lines 57-64: one evaluation of the loop condition and body
GnhLoop(t) ==
    /\ tpc[t] = "loop"
    /\ IF pool # <<>> /\ tloc[t].attempts <= tloc[t].max_attempts
       THEN /\ pool' = rotate(pool)
            /\ IF InCooldown(bad_hosts, Head(pool), tloc[t].now)
               THEN /\ tloc' = [tloc EXCEPT ![t].attempts = @ + 1,
                                            ![t].host = Head(pool)]
                    /\ tpc' = tpc
               ELSE /\ tloc' = [tloc EXCEPT ![t].attempts = @ + 1,
                                            ![t].host = Head(pool),
                                            ![t].ret = Head(pool)]
                    /\ tpc' = [tpc EXCEPT ![t] = "ret"]
       ELSE /\ tpc' = [tpc EXCEPT ![t] = "after"]
            /\ UNCHANGED <<pool, tloc>>
    /\ UNCHANGED <<bad_hosts, now, lock, callVars, spiderVars>>

\* get_next_host, lines 66-73: refresh of an empty pool, unconditional pick
GnhAfter(t) ==
    /\ tpc[t] = "after"
    /\ \E listing \in Listings :
         LET r == AfterScan(pool, listing)
         IN  /\ pool' = r.pool
             /\ tloc' = [tloc EXCEPT ![t].ret = r.ret,
                                     ![t].host = r.ret,
                                     ![t].listing =
                                        IF pool = <<>> THEN listing ELSE <<>>,
                                     ![t].refreshed = (pool = <<>>)]
    /\ tpc' = [tpc EXCEPT ![t] = "ret"]
    /\ UNCHANGED <<bad_hosts, now, lock, callVars, spiderVars>>

\* mark_bad, line 76: lock taken
MbEnter(t) ==
    /\ tpc[t] = "idle"
    /\ Acquire(t)
    /\ \E h \in Hosts, d \in Durations :
         tloc' = [tloc EXCEPT ![t] =
                    [NoLocals EXCEPT !.op = "mark_bad", !.host = h, !.dur = d,
                                     !.spool = pool, !.sbad = bad_hosts]]
    /\ tpc' = [tpc EXCEPT ![t] = "write"]
    /\ UNCHANGED <<pool, bad_hosts, now, callVars, spiderVars>>

\* mark_bad, line 77: the deadline is written
MbWrite(t) ==
    /\ tpc[t] = "write"
    /\ bad_hosts' = mark_bad(bad_hosts, tloc[t].host, tloc[t].dur, now)
    /\ tloc' = [tloc EXCEPT ![t].now = now]
    /\ tpc' = [tpc EXCEPT ![t] = "ret"]
    /\ UNCHANGED <<pool, now, lock, callVars, spiderVars>>

\* the with block is left and the call returns
PoolReturn(t) ==
    /\ tpc[t] = "ret"
    /\ lock' = "free"
    /\ tpc' = [tpc EXCEPT ![t] = "idle"]
    /\ tloc' = [tloc EXCEPT ![t] = NoLocals]
    /\ UNCHANGED <<pool, bad_hosts, now, callVars, spiderVars>>

\* the clock advances while threads run
TickPool ==
    /\ now < MaxTime
    /\ now' = now + 1
    /\ UNCHANGED <<pool, bad_hosts, lock, tpc, tloc, callVars, spiderVars>>

NoRec0 == [biography |-> "NoVal", followers |-> 0, profile_picture_url |-> "NoVal"]

\* state of a process that runs no scrape_instagram_profile call
CallIdle ==
    /\ pc = "idle" /\ proxy_attempts = 0 /\ host = None
    /\ result_buffer = <<>> /\ failure_reasons = <<>>
    /\ outcome = [kind |-> "none", rec |-> NoRec0, reasons |-> <<>>]
    /\ stage = {}
    /\ last = [callback |-> "none", status |-> 0, kind |-> "none"]
    /\ crawl = [st |-> "none", msg |-> ""] /\ spider_proxy = None
    /\ requested = <<>> /\ trace = <<>>
    /\ socks_configured = TRUE /\ ticks = 0
    /\ netops = {} /\ returns = NoReturns
    /\ store = <<>> /\ served = NotServed
    /\ calls = NoCalls

ThreadsIdle ==
    /\ lock = "free"
    /\ tpc = [t \in Threads |-> "idle"]
    /\ tloc = [t \in Threads |-> NoLocals]

InitPool ==
    /\ pool \in InitialPools
    /\ bad_hosts = <<>>
    /\ now = 0
    /\ ThreadsIdle
    /\ CallIdle

NextPool ==
    \/ \E t \in Threads : GnhEnter(t)
    \/ \E t \in Threads : GnhLoop(t)
    \/ \E t \in Threads : GnhAfter(t)
    \/ \E t \in Threads : MbEnter(t)
    \/ \E t \in Threads : MbWrite(t)
    \/ \E t \in Threads : PoolReturn(t)
    \/ TickPool

SpecPool == InitPool /\ [][NextPool]_vars

\* ------------------------------------- consecutive calls on one manager
\* get_next_host as one step (the lock makes it one), its result recorded;
\* the record starts anew when the ring was empty and had to be refreshed
CallGetNextHost ==
    /\ Len(returns.hosts) < MaxReturns
    /\ \E listing \in IF Refreshes(pool, bad_hosts, now) THEN Listings
                       ELSE {<<>>} :
         LET r == get_next_host(pool, bad_hosts, now, listing)
         IN  /\ pool' = r.pool
             /\ returns' = IF returns.hosts = <<>> \/ pool = <<>>
                           THEN [start |-> now, hosts |-> <<r.ret>>]
                           ELSE [returns EXCEPT !.hosts = Append(@, r.ret)]
    /\ UNCHANGED <<bad_hosts, now, threadVars, pc, proxy_attempts, host,
                   result_buffer, failure_reasons, outcome, trace,
                   socks_configured, ticks, netops, store, served, calls,
                   spiderVars>>

\* mark_bad as one step; the record of consecutive get_next_host calls ends
CallMarkBad ==
    /\ \E h \in Hosts, d \in Durations :
         bad_hosts' = mark_bad(bad_hosts, h, d, now)
    /\ returns' = NoReturns
    /\ UNCHANGED <<pool, now, threadVars, pc, proxy_attempts, host,
                   result_buffer, failure_reasons, outcome, trace,
                   socks_configured, ticks, netops, store, served, calls,
                   spiderVars>>

\* the configured pool of a manager: up to as many entries as there are hosts
InitRing ==
    /\ pool \in {refresh_pool(p, l) : p \in {<<>>}, l \in Listings}
                  \cup (SeqsUpTo(Hosts, Cardinality(Hosts)) \ {<<>>})
    /\ bad_hosts = <<>>
    /\ now = 0
    /\ ThreadsIdle
    /\ CallIdle

NextRing ==
    \/ CallGetNextHost
    \/ CallMarkBad
    \/ TickPool

SpecRing == InitRing /\ [][NextRing]_vars

\* ------------------------------------------------------------ the spider
NoVal == "NoVal"

\* statuses of meta["handle_httpstatus_list"] of start_requests that reach a
\* callback (400 is treated as 403 is; 302 as 403 by the two API callbacks
\* and as 200 by parse_legacy_json and parse_html)
HandledStatuses == {200, 403, 404, 429}

\* user objects of a JSON payload, by the keys _build_result_from_user reads;
\* id stands for the keys it does not read (a user object without any key
\* is {} and counts as no user)
FullUser ==
    [id |-> "u", edge_followed_by |-> "7", profile_pic_url_hd |-> "hd",
     profile_pic_url |-> NoVal, biography |-> "bio"]

\* the full user object with one group of keys varied at a time
Users ==
    {[FullUser EXCEPT !.edge_followed_by = e] :
        e \in {"absent", "null", "nan", "0", "7"}}
    \cup {[FullUser EXCEPT !.profile_pic_url_hd = h, !.profile_pic_url = p] :
            h \in {NoVal, "hd", "bad"}, p \in {NoVal, "std"}}
    \cup {[FullUser EXCEPT !.biography = b] : b \in {NoVal, "", "bio"}}
    \cup {[FullUser EXCEPT !.edge_followed_by = "0",
                           !.profile_pic_url_hd = NoVal]}

\* None or {} where a user object is looked up
NoUser ==
    [id |-> NoVal, edge_followed_by |-> "absent", profile_pic_url_hd |-> NoVal,
     profile_pic_url |-> NoVal, biography |-> NoVal]

\* `if user:`
Truthy(u) == u.id # NoVal

\* the user objects used inside the larger bodies (legacy payload, HTML blob)
SampleUsers ==
    {FullUser, [FullUser EXCEPT !.edge_followed_by = "0",
                                !.profile_pic_url_hd = NoVal]}

\* response.text of the mobile and web API: blank, not JSON, JSON that is
\* not an object, an object without data.user, or an object with data.user
ApiBodies ==
    [kind : {"blank", "notjson", "nonobject", "nouser"}, user : {NoUser}]
        \cup [kind : {"user"}, user : Users]

\* response.text of the legacy endpoint: the three places of a user object
LegacyBodies ==
    [kind : {"blank", "notjson", "nonobject"},
     graphql : {NoUser}, data : {NoUser}, items : {"absent"}, item : {NoUser}]
        \cup [kind : {"object"},
              graphql : SampleUsers \cup {NoUser},
              data : SampleUsers \cup {NoUser},
              items : {"absent", "emptylist"}, item : {NoUser}]
        \cup [kind : {"object"},
              graphql : SampleUsers \cup {NoUser},
              data : SampleUsers \cup {NoUser},
              items : {"list"}, item : SampleUsers \cup {NoUser}]

\* response.text of the profile page: the embedded blob (none, one without
\* a user, one whose ProfilePage list is empty, one with a user) and what
\* the four field patterns find in the markup
HtmlBodies ==
    [blob : {"noblob", "nouser"}, user : {NoUser},
     followers : {"nomatch", "0", "7"},
     pic : {NoVal, "hd", "bad"},
     biography : {"bio"}]
        \cup [blob : {"noblob"}, user : {NoUser}, followers : {"7"},
              pic : {"hd"}, biography : {NoVal, ""}]
        \cup [blob : {"user"}, user : SampleUsers,
              followers : {"nomatch"}, pic : {NoVal}, biography : {NoVal}]
        \cup [blob : {"emptypage"}, user : {NoUser},
              followers : {"nomatch"}, pic : {NoVal}, biography : {NoVal}]

\* int() on the digit strings of the model
ParseInt(x) == IF x = "7" THEN 7 ELSE 0

\* what the transport hands to errback: HttpError for a status outside
\* handle_httpstatus_list, the three timeout classes, anything else
Failures ==
    [type : {"HttpError"}, status : {500}]
        \cup [type : {"TimeoutError", "TCPTimedOutError", "DNSLookupError",
                      "OtherError"}, status : {0}]

\* mutant: meta["proxy"] is not set
Request_NoProxy(cb, proxy) == [callback |-> cb, proxy |-> None]

\* a Request: its callback and meta["proxy"]
Request(cb, proxy) == [callback |-> cb, proxy |-> proxy]

\* outcomes of a callback: a record appended, a request yielded, a raise
NoRecord == [biography |-> NoVal, followers |-> 0, profile_picture_url |-> NoVal]
Appended(rec) ==
    [out |-> "append", rec |-> rec, next |-> <<>>, exc |-> "none", msg |-> ""]
Yielded(cb) ==
    [out |-> "yield", rec |-> NoRecord, next |-> <<cb>>, exc |-> "none", msg |-> ""]
Raised(exc, msg) ==
    [out |-> "raise", rec |-> NoRecord, next |-> <<>>, exc |-> exc, msg |-> msg]

\* mutant: the follower count is not read
build_result_from_user_NoCount(u) ==
    LET profile_pic == IF u.profile_pic_url_hd # NoVal THEN u.profile_pic_url_hd
                       ELSE u.profile_pic_url
    IN  Appended([biography |-> IF u.biography \in {NoVal, ""} THEN NoVal
                                ELSE u.biography,
                  followers |-> 0,
                  profile_picture_url |-> profile_pic])

\* _build_result_from_user; int("nan") raises ValueError
build_result_from_user(u) ==
    LET followers == IF u.edge_followed_by \in {"absent", "null"} THEN "0"
                     ELSE u.edge_followed_by
        profile_pic == IF u.profile_pic_url_hd # NoVal THEN u.profile_pic_url_hd
                       ELSE u.profile_pic_url
    IN  IF followers = "nan"
        THEN Raised("Other", "ValueError")
        ELSE Appended([biography |-> IF u.biography \in {NoVal, ""} THEN NoVal
                                     ELSE u.biography,
                       followers |-> ParseInt(followers),
                       profile_picture_url |-> profile_pic])

\* the `if status == 200 ...` block shared by parse_mobile_api, parse_api_v1
ApiUser(body, fallback) ==
    CASE body.kind = "notjson" -> Yielded(fallback)
      [] body.kind = "nonobject" -> Raised("Other", "AttributeError")
      [] body.kind = "nouser" -> Yielded(fallback)
      [] body.kind = "user" -> build_result_from_user(body.user)
      [] OTHER -> Yielded(fallback)

\* mutant: no return after the append, the web API is requested as well
parse_mobile_api_NoReturn(status, body) ==
    IF status = 404 THEN Raised("ProfileNotFound", "not found")
    ELSE IF status = 429 THEN Raised("RateLimited", "HTTP 429")
    ELSE IF status = 200 /\ body.kind # "blank"
              /\ ApiUser(body, "parse_api_v1").out = "append"
         THEN [ApiUser(body, "parse_api_v1") EXCEPT !.next = <<"parse_api_v1">>]
         ELSE IF status = 200 /\ body.kind # "blank"
              THEN ApiUser(body, "parse_api_v1")
              ELSE Yielded("parse_api_v1")

parse_mobile_api(status, body) ==
    IF status = 404 THEN Raised("ProfileNotFound", "not found")
    ELSE IF status = 429 THEN Raised("RateLimited", "HTTP 429")
    ELSE IF status = 200 /\ body.kind # "blank"
         THEN ApiUser(body, "parse_api_v1")
         ELSE Yielded("parse_api_v1")

\* mutant: the web API falls back to the profile page, not the legacy JSON
parse_api_v1_SkipLegacy(status, body) ==
    IF status = 404 THEN Raised("ProfileNotFound", "not found")
    ELSE IF status = 429 THEN Raised("RateLimited", "HTTP 429")
    ELSE IF status = 200
         THEN ApiUser(body, "parse_html")
         ELSE Yielded("parse_legacy_json")

\* a blank text does not decode: payload = None
parse_api_v1(status, body) ==
    IF status = 404 THEN Raised("ProfileNotFound", "not found")
    ELSE IF status = 429 THEN Raised("RateLimited", "HTTP 429")
    ELSE IF status = 200
         THEN ApiUser(body, "parse_legacy_json")
         ELSE Yielded("parse_legacy_json")

\* the `or` chain of parse_legacy_json over graphql.user, data.user and
\* items[0].user; an empty items list raises IndexError
LegacyUser(body) ==
    IF Truthy(body.graphql) THEN [ok |-> TRUE, user |-> body.graphql]
    ELSE IF Truthy(body.data) THEN [ok |-> TRUE, user |-> body.data]
    ELSE IF body.items = "emptylist" THEN [ok |-> FALSE, user |-> NoUser]
    ELSE IF body.items = "absent" THEN [ok |-> TRUE, user |-> NoUser]
    ELSE [ok |-> TRUE, user |-> body.item]

\* what a legacy payload holds: no user at any of the three places, or the
\* user at the first place that has one
LegacyKind(body) ==
    LET first == IF Truthy(body.graphql) THEN body.graphql
                 ELSE IF Truthy(body.data) THEN body.data
                 ELSE IF body.items = "list" THEN body.item
                 ELSE NoUser
    IN  IF body.kind # "object" THEN body.kind
        ELSE IF ~Truthy(first) THEN "nouser"
        ELSE IF first = FullUser THEN "user_full"
        ELSE "user_zero"

\* mutant: the 404 test is missing, 404 falls under status >= 400
parse_legacy_json_No404(status, body) ==
    IF status = 429 THEN Raised("RateLimited", "HTTP 429")
    ELSE IF status >= 400 \/ body.kind = "blank" THEN Yielded("parse_html")
    ELSE IF body.kind = "notjson" THEN Yielded("parse_html")
    ELSE IF body.kind = "nonobject" THEN Raised("Other", "AttributeError")
    ELSE LET u == LegacyUser(body)
         IN  IF ~u.ok THEN Raised("Other", "IndexError")
             ELSE IF ~Truthy(u.user) THEN Yielded("parse_html")
             ELSE build_result_from_user(u.user)

parse_legacy_json(status, body) ==
    IF status = 404 THEN Raised("ProfileNotFound", "not found")
    ELSE IF status = 429 THEN Raised("RateLimited", "HTTP 429")
    ELSE IF status >= 400 \/ body.kind = "blank" THEN Yielded("parse_html")
    ELSE IF body.kind = "notjson" THEN Yielded("parse_html")
    ELSE IF body.kind = "nonobject" THEN Raised("Other", "AttributeError")
    ELSE LET u == LegacyUser(body)
         IN  IF ~u.ok THEN Raised("Other", "IndexError")
             ELSE IF ~Truthy(u.user) THEN Yielded("parse_html")
             ELSE build_result_from_user(u.user)

\* _extract_from_html: the blob's user, else the field patterns; [0] on an
\* empty ProfilePage list raises IndexError
extract_from_html(body) ==
    IF body.blob = "emptypage" THEN Raised("Other", "IndexError")
    ELSE IF body.blob = "user" /\ Truthy(body.user)
    THEN build_result_from_user(body.user)
    ELSE LET followers == IF body.followers = "nomatch" THEN 0
                          ELSE ParseInt(body.followers)
         IN  IF followers = 0 /\ body.pic = NoVal
             THEN Raised("ProfileNotFound", "Unable to extract data")
             ELSE Appended([biography |-> body.biography,
                            followers |-> followers,
                            profile_picture_url |-> body.pic])

\* mutant: a page without data ends the callback instead of raising
parse_html_NoRaise(status, body) ==
    IF status = 404 THEN Raised("ProfileNotFound", "not found")
    ELSE IF status = 429 THEN Raised("RateLimited", "HTTP 429")
    ELSE IF extract_from_html(body).exc = "ProfileNotFound"
         THEN [Yielded("none") EXCEPT !.next = <<>>]
         ELSE extract_from_html(body)

parse_html(status, body) ==
    IF status = 404 THEN Raised("ProfileNotFound", "not found")
    ELSE IF status = 429 THEN Raised("RateLimited", "HTTP 429")
    ELSE extract_from_html(body)

\* mutant: DNSLookupError is missing from failure.check
errback_NoDns(failure) ==
    IF failure.type = "HttpError" /\ failure.status = 404
    THEN Raised("ProfileNotFound", "not found")
    ELSE IF failure.type = "HttpError" /\ failure.status = 429
    THEN Raised("RateLimited", "HTTP 429")
    ELSE IF failure.type \in {"TimeoutError", "TCPTimedOutError"}
    THEN Raised("ProxyTimeout", "Timeout")
    ELSE Raised("Other", failure.type)

errback(failure) ==
    IF failure.type = "HttpError" /\ failure.status = 404
    THEN Raised("ProfileNotFound", "not found")
    ELSE IF failure.type = "HttpError" /\ failure.status = 429
    THEN Raised("RateLimited", "HTTP 429")
    ELSE IF failure.type \in {"TimeoutError", "TCPTimedOutError", "DNSLookupError"}
    THEN Raised("ProxyTimeout", "Timeout")
    ELSE Raised("Other", failure.type)

\* the state of a _run_spider call
Crawl(st, msg) == [st |-> st, msg |-> msg]
NoCrawl == Crawl("none", "")

\* what the spider was handed: the callback, the status and the body's kind
\* (a user object whose follower count is no number is kind "user_nan")
Handed(cb, status, kind) ==
    [callback |-> cb, status |-> status, kind |-> kind, user |-> NoUser]
NoneHanded == Handed("none", 0, "none")
ApiKind(body) ==
    IF body.kind = "user" /\ body.user.edge_followed_by = "nan"
    THEN "user_nan" ELSE body.kind

\* what an API callback was handed, with the user object of the payload
HandedUser(cb, status, body) ==
    [callback |-> cb, status |-> status, kind |-> ApiKind(body),
     user |-> body.user]

\* the engine takes what the callback or errback of request rq did: records
\* go to the buffer, yielded requests inherit response.meta, a raise ends
\* the crawl, and the crawl returns when no request is left
Deliver(rq, res, handed) ==
    /\ result_buffer' = IF res.out = "append"
                        THEN Append(result_buffer, res.rec) ELSE result_buffer
    /\ stage' = IF res.out = "raise" THEN {}
                ELSE (stage \ {rq}) \cup
                     {Request(res.next[i], rq.proxy) : i \in DOMAIN res.next}
    /\ requested' = requested \o
                    [i \in DOMAIN res.next |-> Request(res.next[i], rq.proxy)]
    /\ crawl' = IF res.out = "raise" THEN Crawl(res.exc, res.msg)
                ELSE IF stage' = {} THEN Crawl("ok", "")
                ELSE crawl
    /\ last' = handed
    /\ netops' = netops \cup
                  {NetOp("request", to_thread) : i \in DOMAIN res.next}
    /\ UNCHANGED <<poolVars, threadVars, pc, proxy_attempts, host,
                   failure_reasons, outcome, spider_proxy, trace,
                   socks_configured, ticks, returns, store, served, calls>>

\* start_requests: the mobile API request, meta["proxy"] when a proxy is set
StartRequests ==
    /\ crawl.st = "starting"
    /\ stage' = {Request("parse_mobile_api", spider_proxy)}
    /\ requested' = <<Request("parse_mobile_api", spider_proxy)>>
    /\ crawl' = Crawl("running", "")
    /\ netops' = netops \cup {NetOp("request", to_thread)}
    /\ UNCHANGED <<poolVars, threadVars, pc, proxy_attempts, host,
                   result_buffer, failure_reasons, outcome, trace,
                   socks_configured, ticks, returns,
                   store, served, calls, spider_proxy, last>>

ParseMobileApi ==
    \E rq \in stage, status \in HandledStatuses, body \in ApiBodies :
        /\ rq.callback = "parse_mobile_api"
        /\ Deliver(rq, parse_mobile_api(status, body),
                   HandedUser(rq.callback, status, body))

ParseApiV1 ==
    \E rq \in stage, status \in HandledStatuses, body \in ApiBodies :
        /\ rq.callback = "parse_api_v1"
        /\ Deliver(rq, parse_api_v1(status, body),
                   HandedUser(rq.callback, status, body))

ParseLegacyJson ==
    \E rq \in stage, status \in HandledStatuses, body \in LegacyBodies :
        /\ rq.callback = "parse_legacy_json"
        /\ Deliver(rq, parse_legacy_json(status, body),
                   Handed(rq.callback, status, LegacyKind(body)))

ParseHtml ==
    \E rq \in stage, status \in HandledStatuses, body \in HtmlBodies :
        /\ rq.callback = "parse_html"
        /\ Deliver(rq, parse_html(status, body),
                   Handed(rq.callback, status, body.blob))

\* the request failed in the transport: its errback runs
Errback ==
    \E rq \in stage, failure \in Failures :
        Deliver(rq, errback(failure),
                Handed(rq.callback, failure.status, failure.type))

\* ------------------------------------------------ scrape_instagram_profile
Event(e, h) == [e |-> e, h |-> h]
Reason(what, h) == [what |-> what, host |-> h]
Outcome(kind, rec, reasons) == [kind |-> kind, rec |-> rec, reasons |-> reasons]
NoOutcome == Outcome("none", NoRecord, <<>>)

\* mutant: the while condition off by one
LoopConditionOffByOne == proxy_attempts <= ProxyRetryLimit

\* the while condition, line 103
LoopCondition == proxy_attempts < ProxyRetryLimit

\* mutant: RateLimited handled as the generic clause handles an exception
ProxyExcept_RetryRateLimited(st) ==
    CASE st = "ProxyTimeout" ->
           [mark |-> TRUE, reason |-> "Proxy timeout", sleep |-> TRUE,
            raise |-> "none"]
      [] st = "ProfileNotFound" ->
           [mark |-> FALSE, reason |-> "", sleep |-> FALSE,
            raise |-> "ProfileNotFoundError"]
      [] OTHER ->
           [mark |-> TRUE, reason |-> "Proxy unexpected error", sleep |-> TRUE,
            raise |-> "none"]

\* the except clauses of the proxy attempt, lines 120-137
ProxyExcept(st) ==
    CASE st = "ProxyTimeout" ->
           [mark |-> TRUE, reason |-> "Proxy timeout", sleep |-> TRUE,
            raise |-> "none"]
      [] st = "RateLimited" ->
           [mark |-> TRUE, reason |-> "", sleep |-> FALSE,
            raise |-> "RateLimitError"]
      [] st = "ProfileNotFound" ->
           [mark |-> FALSE, reason |-> "", sleep |-> FALSE,
            raise |-> "ProfileNotFoundError"]
      [] OTHER ->
           [mark |-> TRUE, reason |-> "Proxy unexpected error", sleep |-> TRUE,
            raise |-> "none"]

\* mutant: no ProxyTimeout clause, the timeout falls to the generic clause
DirectExcept_NoTimeoutClause(st, msg) ==
    CASE st = "ProfileNotFound" ->
           [reason |-> "", raise |-> "ProfileNotFoundError",
            text |-> <<Reason(msg, None)>>]
      [] st = "RateLimited" ->
           [reason |-> "", raise |-> "RateLimitError",
            text |-> <<Reason(msg, None)>>]
      [] OTHER ->
           [reason |-> "Direct connection error",
            raise |-> "ProfileNotFoundError",
            text |-> <<Reason("unavailable or private", None),
                       Reason(msg, None)>>]

\* the except clauses of the direct attempt, lines 143-155: the reason
\* appended to failure_reasons and the error raised with its message
DirectExcept(st, msg) ==
    CASE st = "ProfileNotFound" ->
           [reason |-> "", raise |-> "ProfileNotFoundError",
            text |-> <<Reason(msg, None)>>]
      [] st = "RateLimited" ->
           [reason |-> "", raise |-> "RateLimitError",
            text |-> <<Reason(msg, None)>>]
      [] st = "ProxyTimeout" ->
           [reason |-> "Direct connection timeout",
            raise |-> "ScraperRuntimeError", text |-> <<Reason(msg, None)>>]
      [] OTHER ->
           [reason |-> "Direct connection error",
            raise |-> "ProfileNotFoundError",
            text |-> <<Reason("unavailable or private", None),
                       Reason(msg, None)>>]

\* InstagramProfile(**record): HttpUrl rejects a string that is no URL
InstagramProfile(rec) == rec.profile_picture_url # "bad"

Finished(st) ==
    st \in {"ok", "ProfileNotFound", "RateLimited", "ProxyTimeout", "Other"}

\* one call treats all hosts alike: the hosts of the configured pool and of a
\* listing are distinct and named in the order in which they stand
HostOrder == <<"A", "B", "C">>
Named(p) == \A i \in DOMAIN p : i <= Len(HostOrder) /\ p[i] = HostOrder[i]

\* lines 88-102: a call starts with fresh locals
StartCall ==
    /\ pc = "idle"
    /\ pc' = "loop"
    /\ proxy_attempts' = 0
    /\ host' = None
    /\ result_buffer' = <<>>
    /\ failure_reasons' = <<>>
    /\ outcome' = NoOutcome
    /\ trace' = <<>>
    /\ stage' = {} /\ crawl' = NoCrawl /\ spider_proxy' = None
    /\ requested' = <<>> /\ last' = NoneHanded
    /\ netops' = {}
    /\ UNCHANGED <<poolVars, threadVars, socks_configured, ticks, returns,
                   store, served, calls>>

\* lines 103-110: loop condition, get_next_host, socks5_url
Select ==
    /\ pc = "loop"
    /\ IF LoopCondition
       THEN \E listing \in {l \in Listings : Named(l)} :
              LET r == get_next_host(pool, bad_hosts, now, listing)
                  refreshed == Refreshes(pool, bad_hosts, now)
                  failed == IF refreshed /\ listing = <<>>
                            THEN <<Event("refresh_empty", None)>> ELSE <<>>
              IN  /\ pool' = r.pool
                  /\ netops' = IF refreshed
                               THEN netops \cup {NetOp("refresh", Inline)}
                               ELSE netops
                  /\ IF r.ret = None
                     THEN /\ pc' = "after_loop"
                          /\ trace' = trace \o failed
                                         \o <<Event("no_host", None)>>
                          /\ UNCHANGED <<proxy_attempts, host>>
                     ELSE /\ proxy_attempts' = proxy_attempts + 1
                          /\ host' = r.ret
                          /\ trace' = trace \o failed
                                         \o <<Event("select", r.ret)>>
                          /\ pc' = IF socks_configured THEN "reach"
                                   ELSE "after_loop"
       ELSE /\ pc' = "after_loop"
            /\ UNCHANGED <<pool, proxy_attempts, host, trace, netops>>
    /\ UNCHANGED <<bad_hosts, now, threadVars, result_buffer, failure_reasons,
                   outcome, spiderVars, socks_configured, ticks, returns,
                   store, served, calls>>

\* mutant: an unreachable host is not marked bad
OnUnreachable_NoMark == [mark |-> FALSE, sleep |-> FALSE]

\* lines 112-114: an unreachable host is marked bad, the loop continues
\* without a sleep
OnUnreachable == [mark |-> TRUE, sleep |-> FALSE]

\* lines 112-117: _proxy_reachable, then mark_bad or the start of the crawl
ReachabilityCheck ==
    /\ pc = "reach"
    /\ \E reachable \in BOOLEAN :
         IF ~reachable
         THEN /\ bad_hosts' = IF OnUnreachable.mark
                              THEN mark_bad(bad_hosts, host, CooldownSeconds, now)
                              ELSE bad_hosts
              /\ trace' = trace \o <<Event("unreachable", host)>>
                             \o (IF OnUnreachable.mark
                                 THEN <<Event("mark_bad", host)>> ELSE <<>>)
              /\ pc' = IF OnUnreachable.sleep THEN "backoff" ELSE "loop"
              /\ UNCHANGED <<spiderVars>>
         ELSE /\ crawl' = Crawl("starting", "")
              /\ spider_proxy' = host
              /\ stage' = {}
              /\ requested' = <<>>
              /\ last' = NoneHanded
              /\ trace' = Append(trace, Event("run", host))
              /\ pc' = "proxy_run"
              /\ UNCHANGED bad_hosts
    /\ netops' = netops \cup {NetOp("probe", Inline)}
    /\ UNCHANGED <<pool, now, threadVars, proxy_attempts, host, result_buffer,
                   failure_reasons, outcome, socks_configured, ticks, returns,
                   store, served, calls>>

\* lines 118-137: the crawl through the proxy returned or raised
ProxyRunDone ==
    /\ pc = "proxy_run"
    /\ Finished(crawl.st)
    /\ crawl' = NoCrawl
    /\ IF crawl.st = "ok"
       THEN /\ pc' = "after_loop"
            /\ trace' = Append(trace, Event("break", host))
            /\ UNCHANGED <<bad_hosts, failure_reasons, outcome>>
       ELSE LET x == ProxyExcept(crawl.st)
            IN  /\ bad_hosts' = IF x.mark
                                THEN mark_bad(bad_hosts, host, CooldownSeconds, now)
                                ELSE bad_hosts
                /\ failure_reasons' = IF x.reason # ""
                                      THEN Append(failure_reasons,
                                                  Reason(x.reason, host))
                                      ELSE failure_reasons
                /\ trace' = trace \o <<Event(crawl.st, host)>>
                              \o (IF x.mark THEN <<Event("mark_bad", host)>>
                                  ELSE <<>>)
                              \o (IF x.raise # "none"
                                  THEN <<Event("raise", host)>> ELSE <<>>)
                /\ outcome' = IF x.raise # "none"
                              THEN Outcome(x.raise, NoRecord,
                                           <<Reason(crawl.msg, None)>>)
                              ELSE outcome
                /\ pc' = IF x.raise # "none" THEN "done"
                         ELSE IF x.sleep THEN "backoff" ELSE "loop"
    /\ UNCHANGED <<pool, now, threadVars, proxy_attempts, host, result_buffer,
                   stage, spider_proxy, requested, last, socks_configured,
                   ticks, netops, returns, store, served, calls>>

\* mutant: continue without asyncio.sleep
Backoff_None ==
    /\ pc = "backoff"
    /\ pc' = "loop"
    /\ UNCHANGED <<poolVars, threadVars, proxy_attempts, host, result_buffer,
                   failure_reasons, outcome, spiderVars, trace,
                   socks_configured, ticks, netops, returns, store, served,
                   calls>>

\* lines 124 and 136: asyncio.sleep(proxy_backoff_seconds), then continue
Backoff ==
    /\ pc = "backoff"
    /\ now' = now + BackoffSeconds
    /\ trace' = Append(trace, Event("sleep", host))
    /\ pc' = "loop"
    /\ UNCHANGED <<pool, bad_hosts, threadVars, proxy_attempts, host,
                   result_buffer, failure_reasons, outcome, spiderVars,
                   socks_configured, ticks, netops, returns, store, served,
                   calls>>

\* lines 139-142: the direct attempt when the buffer is empty
AfterLoop ==
    /\ pc = "after_loop"
    /\ IF result_buffer = <<>>
       THEN /\ crawl' = Crawl("starting", "")
            /\ spider_proxy' = None
            /\ stage' = {}
            /\ requested' = <<>>
            /\ last' = NoneHanded
            /\ trace' = Append(trace, Event("run", None))
            /\ pc' = "direct_run"
       ELSE /\ pc' = "final"
            /\ UNCHANGED <<spiderVars, trace>>
    /\ UNCHANGED <<poolVars, threadVars, proxy_attempts, host, result_buffer,
                   failure_reasons, outcome, socks_configured, ticks, netops,
                   returns, store, served, calls>>

\* lines 142-155: the direct crawl returned or raised
DirectRunDone ==
    /\ pc = "direct_run"
    /\ Finished(crawl.st)
    /\ crawl' = NoCrawl
    /\ IF crawl.st = "ok"
       THEN /\ pc' = "final"
            /\ UNCHANGED <<failure_reasons, outcome, trace>>
       ELSE LET x == DirectExcept(crawl.st, crawl.msg)
            IN  /\ failure_reasons' = IF x.reason # ""
                                      THEN Append(failure_reasons,
                                                  Reason(x.reason, None))
                                      ELSE failure_reasons
                /\ outcome' = Outcome(x.raise, NoRecord, x.text)
                /\ trace' = trace \o <<Event(crawl.st, None),
                                       Event("raise", None)>>
                /\ pc' = "done"
    /\ UNCHANGED <<poolVars, threadVars, proxy_attempts, host, result_buffer,
                   stage, spider_proxy, requested, last, socks_configured,
                   ticks, netops, returns, store, served, calls>>

\* lines 157-164: empty buffer raises with the collected reasons, else the
\* first record is validated and returned
Final ==
    /\ pc = "final"
    /\ outcome' =
         IF result_buffer = <<>>
         THEN Outcome("ProfileNotFoundError", NoRecord,
                      <<Reason("unavailable or private", None)>> \o
                      (IF failure_reasons # <<>> THEN failure_reasons
                       ELSE <<Reason("No data returned", None)>>))
         ELSE IF InstagramProfile(result_buffer[1])
              THEN Outcome("record", result_buffer[1], <<>>)
              ELSE Outcome("ValidationError", NoRecord, <<>>)
    /\ trace' = Append(trace, Event(IF result_buffer # <<>>
                                       /\ InstagramProfile(result_buffer[1])
                                    THEN "return" ELSE "raise", None))
    /\ pc' = "done"
    /\ UNCHANGED <<poolVars, threadVars, proxy_attempts, host, result_buffer,
                   failure_reasons, spiderVars, socks_configured, ticks,
                   netops, returns, store, served, calls>>

\* the clock jumps ahead; only get_next_host and mark_bad read it, so the
\* jump is taken right before a step that calls one of them
Tick ==
    /\ ticks < MaxTicks
    /\ \/ pc \in {"loop", "reach"}
       \/ pc = "proxy_run" /\ Finished(crawl.st)
    /\ ticks' = ticks + 1
    /\ now' = now + TickStep
    /\ UNCHANGED <<pool, bad_hosts, threadVars, pc, proxy_attempts, host,
                   result_buffer, failure_reasons, outcome, spiderVars, trace,
                   socks_configured, netops, returns, store, served, calls>>

Init ==
    /\ pool \in {p \in InitialPools : Named(p)}
    /\ bad_hosts = <<>>
    /\ now = 0
    /\ ThreadsIdle
    /\ pc = "idle" /\ proxy_attempts = 0 /\ host = None
    /\ result_buffer = <<>> /\ failure_reasons = <<>>
    /\ outcome = NoOutcome
    /\ stage = {} /\ crawl = NoCrawl /\ spider_proxy = None
    /\ requested = <<>> /\ last = NoneHanded /\ trace = <<>>
    /\ socks_configured \in BOOLEAN /\ ticks = 0
    /\ netops = {} /\ returns = NoReturns
    /\ store = <<>> /\ served = NotServed
    /\ calls = NoCalls

Next ==
    \/ StartCall
    \/ Select
    \/ ReachabilityCheck
    \/ ProxyRunDone
    \/ Backoff
    \/ AfterLoop
    \/ DirectRunDone
    \/ Final
    \/ StartRequests
    \/ ParseMobileApi
    \/ ParseApiV1
    \/ ParseLegacyJson
    \/ ParseHtml
    \/ Errback
    \/ Tick

Spec == Init /\ [][Next]_vars

\* ------------------------------------------------------ the serving layer
\* str.lstrip(c) and str.rstrip(c) on a string as a sequence of characters
RECURSIVE lstrip(_, _)
lstrip(str, c) ==
    IF str # <<>> /\ Head(str) = c THEN lstrip(Tail(str), c) ELSE str

RECURSIVE rstrip(_, _)
rstrip(str, c) ==
    IF str # <<>> /\ str[Len(str)] = c
    THEN rstrip(SubSeq(str, 1, Len(str) - 1), c) ELSE str

\* str.strip(): the blanks at both ends go
strip(str) == rstrip(lstrip(str, " "), " ")

\* the path parameter of GET /instagram/{username}
Usernames ==
    {<<"a">>, <<"B">>, <<"@", "a">>, <<" ", "a", " ">>, <<"@", "@", "B">>,
     <<"@">>}

\* what scrape_instagram_profile returns or raises
ScrapeResults ==
    {"record", "ProfileNotFoundError", "RateLimitError", "ScraperRuntimeError",
     "ValidationError"}

\* a row of profile_snapshots: the username, the second of scraped_at, and
\* whether the picture was saved as <username>_<timestamp><suffix>
Row(username, at, image) == [username |-> username, at |-> at, image |-> image]

\* persist_profile: _download_image returns one string, not a pair, when the
\* destination file exists, and the unpacking at line 70 raises ValueError;
\* otherwise the row is inserted
persist_profile(rows, username, has_picture, scraped_at, downloaded) ==
    IF has_picture /\ \E i \in DOMAIN rows :
                        rows[i] = Row(username, scraped_at, TRUE)
    THEN [raised |-> TRUE, rows |-> rows]
    ELSE [raised |-> FALSE,
          rows |-> Append(rows, Row(username, scraped_at,
                                    has_picture /\ downloaded))]

\* get_latest_profile: ORDER BY datetime(scraped_at) DESC LIMIT 1 compares
\* whole seconds; among the rows of the latest second any may come first
get_latest_profile(rows, username) ==
    {i \in DOMAIN rows :
        /\ rows[i].username = username
        /\ \A j \in DOMAIN rows :
             rows[j].username = username => rows[j].at <= rows[i].at}

\* the answer to a request: the handle, the result of the scrape, the
\* status code, the row served (0: none), is_cached and data.username
Served(username, handle, result, status, row, is_cached, name) ==
    [username |-> username, handle |-> handle, result |-> result,
     status |-> status, row |-> row, is_cached |-> is_cached, name |-> name]

\* GET /instagram/{username}, lines 68-92, and the handler of line 95
get_instagram_profile ==
    \E username \in Usernames, result \in ScrapeResults :
        LET handle == lstrip(strip(username), "@")
            name == lstrip(strip(handle), "@")
            answer(status) ==
                Served(username, handle, result, status, 0, FALSE, <<>>)
        IN  IF handle = <<>>
            THEN served' = Served(username, handle, "none", 400, 0, FALSE, <<>>)
                 /\ store' = store
            ELSE CASE result = "record" ->
                        /\ Len(store) < MaxStore
                        /\ \E has_picture, downloaded \in BOOLEAN :
                             LET p == persist_profile(store, name, has_picture,
                                                      now, downloaded)
                             IN  /\ store' = p.rows
                                 /\ served' =
                                      IF p.raised THEN answer(500)
                                      ELSE Served(username, handle, result, 200,
                                                  Len(p.rows), FALSE, name)
                   [] result = "ProfileNotFoundError" ->
                        served' = answer(404) /\ store' = store
                   [] result = "RateLimitError" ->
                        served' = answer(429) /\ store' = store
                   [] result = "ScraperRuntimeError" ->
                        /\ store' = store
                        /\ IF get_latest_profile(store, handle) = {}
                           THEN served' = answer(500)
                           ELSE \E i \in get_latest_profile(store, handle) :
                                  served' = Served(username, handle, result,
                                                   200, i, TRUE,
                                                   store[i].username)
                   [] OTHER ->
                        served' = answer(500) /\ store' = store

GetInstagramProfile ==
    /\ get_instagram_profile
    /\ UNCHANGED <<poolVars, threadVars, pc, proxy_attempts, host,
                   result_buffer, failure_reasons, outcome, trace,
                   socks_configured, ticks, netops, returns, spiderVars,
                   calls>>

InitServe ==
    /\ pool = <<>>
    /\ bad_hosts = <<>>
    /\ now = 0
    /\ ThreadsIdle
    /\ CallIdle

NextServe ==
    \/ GetInstagramProfile
    \/ TickPool

SpecServe == InitServe /\ [][NextServe]_vars

\* --------------------------------------------------------- concurrent calls
\* scrape_instagram_profile calls of one process: coroutines of one event
\* loop, which interleave at their awaits (the crawl, run in a worker
\* thread, and the backoff sleep), on the one ProxyManager of
\* get_proxy_manager()
CallUsernames == {<<"a">>, <<"@", "B">>}

\* the configured pools of the manager the calls share
CallPools == {<<>>, <<"A">>, <<"A", "B">>}

\* everything but the pool, the clock and the locals of the calls
soloVars ==
    <<threadVars, pc, proxy_attempts, host, result_buffer, failure_reasons,
      outcome, trace, socks_configured, ticks, netops, returns, store, served,
      spiderVars>>

\* mutant: the result buffer is one module-level list
run_with_proxy_SharedBuffer(c, proxy_url) ==
    [st |-> "running", username |-> calls[c].username,
     result_buffer |-> "c1", proxy_url |-> proxy_url]

\* run_with_proxy and _run_spider: the spider of a crawl is made with the
\* username and the result_buffer of the call that runs it
run_with_proxy(c, proxy_url) ==
    [st |-> "running", username |-> calls[c].username,
     result_buffer |-> c, proxy_url |-> proxy_url]

\* how a chain run ends: one record appended, or one of the exceptions
RunEnds == {"record", "ProfileNotFound", "RateLimited", "ProxyTimeout", "Other"}

\* the record of a spider carries self.username, line 39; `by` is the call
\* whose crawl made the record (history)
CallRecord(spider, c) == [username |-> strip(spider.username), by |-> c]

\* an entry of failure_reasons; `by` is the call that appended it (history)
CallReason(what, c) == [what |-> what, by |-> c]

\* what a call returned or raised
CallResult(kind, buffer) ==
    IF kind = "record"
    THEN [kind |-> kind, username |-> buffer[1].username, by |-> buffer[1].by]
    ELSE [NoResult EXCEPT !.kind = kind]

\* lines 88-102
CallStart(c) ==
    /\ calls[c].pc = "idle"
    /\ \E username \in CallUsernames :
         calls' = [calls EXCEPT ![c] = [NoCall EXCEPT !.pc = "loop",
                                                     !.username = username]]
    /\ UNCHANGED <<poolVars, soloVars>>

\* lines 103-110
CallSelect(c) ==
    /\ calls[c].pc = "loop"
    /\ IF calls[c].proxy_attempts < ProxyRetryLimit
       THEN \E listing \in IF Refreshes(pool, bad_hosts, now)
                           THEN {l \in Listings : Named(l)} ELSE {<<>>} :
              LET r == get_next_host(pool, bad_hosts, now, listing)
              IN  /\ pool' = r.pool
                  /\ calls' =
                       IF r.ret = None
                       THEN [calls EXCEPT ![c].pc = "after_loop"]
                       ELSE [calls EXCEPT
                               ![c].proxy_attempts = @ + 1,
                               ![c].host = r.ret,
                               ![c].pc = IF socks_configured THEN "reach"
                                         ELSE "after_loop"]
       ELSE /\ calls' = [calls EXCEPT ![c].pc = "after_loop"]
            /\ pool' = pool
    /\ UNCHANGED <<bad_hosts, now, soloVars>>

\* lines 112-117
CallReach(c) ==
    /\ calls[c].pc = "reach"
    /\ \E reachable \in BOOLEAN :
         IF ~reachable
         THEN /\ bad_hosts' = mark_bad(bad_hosts, calls[c].host,
                                       CooldownSeconds, now)
              /\ calls' = [calls EXCEPT ![c].pc = "loop"]
         ELSE /\ calls' = [calls EXCEPT
                             ![c].spider = run_with_proxy(c, calls[c].host),
                             ![c].pc = "proxy_run"]
              /\ bad_hosts' = bad_hosts
    /\ UNCHANGED <<pool, now, soloVars>>

\* the crawl of call c ends in the worker thread: the spider appends its
\* record to the buffer it was made with, or an exception leaves _run_spider
SpiderEnds(c) ==
    /\ calls[c].spider.st = "running"
    /\ \E end \in RunEnds :
         LET spider == calls[c].spider
             appended(d) ==
                IF end = "record" /\ d = spider.result_buffer
                THEN [calls[d] EXCEPT !.result_buffer =
                                         Append(@, CallRecord(spider, c))]
                ELSE calls[d]
         IN  calls' = [d \in Calls |->
                         IF d = c
                         THEN [appended(d) EXCEPT !.spider.st =
                                 IF end = "record" THEN "ok" ELSE end]
                         ELSE appended(d)]
    /\ UNCHANGED <<poolVars, soloVars>>

\* lines 118-137
CallProxyRunDone(c) ==
    /\ calls[c].pc = "proxy_run"
    /\ Finished(calls[c].spider.st)
    /\ IF calls[c].spider.st = "ok"
       THEN /\ calls' = [calls EXCEPT ![c].pc = "after_loop",
                                      ![c].spider = NoSpider]
            /\ bad_hosts' = bad_hosts
       ELSE LET x == ProxyExcept(calls[c].spider.st)
            IN  /\ bad_hosts' = IF x.mark
                                THEN mark_bad(bad_hosts, calls[c].host,
                                              CooldownSeconds, now)
                                ELSE bad_hosts
                /\ calls' = [calls EXCEPT
                      ![c].failure_reasons =
                          IF x.reason # ""
                          THEN Append(@, CallReason(x.reason, c))
                          ELSE @,
                      ![c].outcome =
                          IF x.raise # "none"
                          THEN CallResult(x.raise, <<>>) ELSE @,
                      ![c].pc = IF x.raise # "none" THEN "done"
                                ELSE IF x.sleep THEN "backoff" ELSE "loop",
                      ![c].spider = NoSpider]
    /\ UNCHANGED <<pool, now, soloVars>>

\* lines 124 and 136: the call sleeps and the other calls go on (the
\* cooldowns outlast the backoff sleeps of a call, so the clock is left
\* where it is)
CallBackoff(c) ==
    /\ calls[c].pc = "backoff"
    /\ calls' = [calls EXCEPT ![c].pc = "loop"]
    /\ UNCHANGED <<poolVars, soloVars>>

\* lines 139-142
CallAfterLoop(c) ==
    /\ calls[c].pc = "after_loop"
    /\ calls' = IF calls[c].result_buffer = <<>>
                THEN [calls EXCEPT ![c].spider = run_with_proxy(c, None),
                                   ![c].pc = "direct_run"]
                ELSE [calls EXCEPT ![c].pc = "final"]
    /\ UNCHANGED <<poolVars, soloVars>>

\* lines 142-155
CallDirectRunDone(c) ==
    /\ calls[c].pc = "direct_run"
    /\ Finished(calls[c].spider.st)
    /\ IF calls[c].spider.st = "ok"
       THEN calls' = [calls EXCEPT ![c].pc = "final", ![c].spider = NoSpider]
       ELSE LET x == DirectExcept(calls[c].spider.st, "")
            IN  calls' = [calls EXCEPT
                  ![c].failure_reasons =
                      IF x.reason # ""
                      THEN Append(@, CallReason(x.reason, c)) ELSE @,
                  ![c].outcome = CallResult(x.raise, <<>>),
                  ![c].pc = "done",
                  ![c].spider = NoSpider]
    /\ UNCHANGED <<poolVars, soloVars>>

\* lines 157-164 (the records of this specification have valid fields)
CallFinal(c) ==
    /\ calls[c].pc = "final"
    /\ calls' = [calls EXCEPT
          ![c].outcome =
              IF calls[c].result_buffer = <<>>
              THEN CallResult("ProfileNotFoundError", <<>>)
              ELSE CallResult("record", calls[c].result_buffer),
          ![c].pc = "done"]
    /\ UNCHANGED <<poolVars, soloVars>>

InitCalls ==
    /\ pool \in CallPools
    /\ bad_hosts = <<>>
    /\ now = 0
    /\ ThreadsIdle
    /\ pc = "idle" /\ proxy_attempts = 0 /\ host = None
    /\ result_buffer = <<>> /\ failure_reasons = <<>>
    /\ outcome = NoOutcome
    /\ stage = {} /\ crawl = NoCrawl /\ spider_proxy = None
    /\ requested = <<>> /\ last = NoneHanded /\ trace = <<>>
    /\ socks_configured \in BOOLEAN /\ ticks = 0
    /\ netops = {} /\ returns = NoReturns
    /\ store = <<>> /\ served = NotServed
    /\ calls = NoCalls

NextCalls ==
    \/ \E c \in Calls : CallStart(c)
    \/ \E c \in Calls : CallSelect(c)
    \/ \E c \in Calls : CallReach(c)
    \/ \E c \in Calls : SpiderEnds(c)
    \/ \E c \in Calls : CallProxyRunDone(c)
    \/ \E c \in Calls : CallBackoff(c)
    \/ \E c \in Calls : CallAfterLoop(c)
    \/ \E c \in Calls : CallDirectRunDone(c)
    \/ \E c \in Calls : CallFinal(c)

SpecCalls == InitCalls /\ [][NextCalls]_vars

\* ------------------------------------------------------------ properties
Strategies ==
    <<"parse_mobile_api", "parse_api_v1", "parse_legacy_json", "parse_html">>

\* positions of the trace with event e, through a proxy / without one
ProxyEvents(e) == {i \in DOMAIN trace : trace[i].e = e /\ trace[i].h # None}
DirectEvents(e) == {i \in DOMAIN trace : trace[i].e = e /\ trace[i].h = None}
TimeoutTypes == {"TimeoutError", "TCPTimedOutError", "DNSLookupError"}

\* C1: a get_next_host call never returns a host whose cooldown deadline
\* lies after the time the call read (also when every host of the ring is
\* in cooldown, also when the ring holds one host)
C1_NoHostInCooldown ==
    \A t \in Threads :
        (tpc[t] = "ret" /\ tloc[t].op = "get_next_host" /\ tloc[t].ret # None)
            => ~InCooldown(bad_hosts, tloc[t].ret, tloc[t].now)

\* C2: the requests of a crawl are a prefix of mobile API, web API, legacy
\* JSON, HTML; at most one is in flight, and it is the latest requested; a
\* later strategy is in flight only when the response handed over last was
\* the previous strategy's and left no record and no exception; after a
\* mobile API response 200 with a valid user object there is one request,
\* none in flight and one record
C2_StrictOrder ==
    /\ Len(requested) <= Len(Strategies)
    /\ \A i \in DOMAIN requested : requested[i].callback = Strategies[i]
    /\ Cardinality(stage) <= 1
    /\ \A rq \in stage :
         /\ rq = requested[Len(requested)]
         /\ crawl.st = "running"
         /\ Len(requested) > 1 =>
              /\ last.callback = Strategies[Len(requested) - 1]
              /\ result_buffer = <<>>
    /\ (last.callback = "parse_mobile_api" /\ last.status = 200
            /\ last.kind = "user")
         => (Len(requested) = 1 /\ stage = {} /\ Len(result_buffer) = 1)

C2_Witness ==
    /\ Len(requested) = 4
    /\ stage = {Request("parse_html", spider_proxy)}
    /\ spider_proxy # None

\* the crawl ended with exc at the strategy that was answered last
C3_Ended(exc, err) ==
    /\ stage = {}
    /\ result_buffer = <<>>
    /\ requested[Len(requested)].callback = last.callback
    /\ \/ crawl.st = exc
       \/ crawl.st = "none" /\ pc = "done" /\ outcome.kind = err

\* C3: once a response with status 404 (429) was handed to the spider, at
\* whichever strategy, the crawl has ended with ProfileNotFound
\* (RateLimited): nothing is in flight, no strategy after that one was
\* requested and the buffer is empty
C3_TerminalStatus ==
    /\ last.status = 404 => C3_Ended("ProfileNotFound", "ProfileNotFoundError")
    /\ last.status = 429 => C3_Ended("RateLimited", "RateLimitError")

C3_Witness ==
    /\ last.callback = "parse_legacy_json"
    /\ last.status = 404
    /\ crawl.st = "ProfileNotFound"

\* C4: after a crawl through a proxy ended with RateLimited or
\* ProfileNotFound the call has ended with the corresponding error, and the
\* trace has no selection, no sleep and no crawl after that event
C4_TerminalAtOnce ==
    \A i \in ProxyEvents("RateLimited") \cup ProxyEvents("ProfileNotFound") :
        /\ pc = "done"
        /\ outcome.kind = IF trace[i].e = "RateLimited" THEN "RateLimitError"
                          ELSE "ProfileNotFoundError"
        /\ \A j \in DOMAIN trace :
             j > i => trace[j].e \notin {"select", "no_host", "sleep", "run"}

C4_Witness ==
    /\ ProxyEvents("RateLimited") # {}
    /\ proxy_attempts < ProxyRetryLimit
    /\ pc = "done"

\* C5: a call selects at most proxy_retry_limit hosts and runs at most
\* proxy_retry_limit + 1 crawls; the direct crawl runs at most once, not at
\* all after a crawl through a proxy left a record, and once when the call
\* went past the loop without a record and without a terminal error
C5_AttemptBudget ==
    LET selected == Cardinality(ProxyEvents("select"))
        direct == Cardinality(DirectEvents("run"))
        through == Cardinality(ProxyEvents("run"))
        broke == ProxyEvents("break") # {}
        terminal == ProxyEvents("raise") # {}
    IN  /\ selected <= ProxyRetryLimit
        /\ selected = proxy_attempts
        /\ through + direct <= ProxyRetryLimit + 1
        /\ direct <= 1
        /\ broke => (direct = 0 /\ result_buffer # <<>>)
        /\ (pc \in {"direct_run", "final", "done"} /\ ~broke /\ ~terminal)
             => direct = 1

C5_Witness ==
    /\ Cardinality(ProxyEvents("select")) = ProxyRetryLimit
    /\ Cardinality(ProxyEvents("run")) = ProxyRetryLimit
    /\ DirectEvents("run") # {}
    /\ pc = "done"

\* C6: a call that has ended returned a record or raised
\* ProfileNotFoundError, RateLimitError or ScraperRuntimeError; while a
\* timeout, an unexpected exception or an unreachable host of a proxy
\* attempt is being handled the call has raised nothing
C6_OnlyThreeErrors ==
    /\ pc = "done" => outcome.kind \in {"record", "ProfileNotFoundError",
                                        "RateLimitError", "ScraperRuntimeError"}
    /\ pc \in {"backoff", "loop", "reach"} => outcome.kind = "none"

\* the raised error's message holds the reason
C7_Carried(what, h) ==
    \E k \in DOMAIN outcome.reasons : outcome.reasons[k] = Reason(what, h)

\* C7: when the direct crawl was run and the call ended with
\* ProfileNotFoundError, the error carries a reason for every proxy attempt
\* that failed (timeout, unexpected, unreachable) and one for the direct one
C7_AllReasonsCarried ==
    (pc = "done" /\ outcome.kind = "ProfileNotFoundError"
        /\ DirectEvents("run") # {})
    => /\ \A i \in ProxyEvents("ProxyTimeout") :
            C7_Carried("Proxy timeout", trace[i].h)
       /\ \A i \in ProxyEvents("Other") :
            C7_Carried("Proxy unexpected error", trace[i].h)
       /\ \A i \in ProxyEvents("unreachable") :
            \E k \in DOMAIN outcome.reasons :
                outcome.reasons[k].host = trace[i].h
       /\ Len(outcome.reasons) >= 1

\* C8: when every crawl through a proxy of the call ended with ProxyTimeout
\* and the direct crawl ended with ProxyTimeout, the call raised
\* ScraperRuntimeError
C8_TimeoutsFoldToRuntime ==
    (/\ pc = "done"
     /\ DirectEvents("ProxyTimeout") # {}
     /\ Cardinality(ProxyEvents("ProxyTimeout")) = Cardinality(ProxyEvents("run")))
    => outcome.kind = "ScraperRuntimeError"

C8_Witness ==
    /\ pc = "done"
    /\ DirectEvents("ProxyTimeout") # {}
    /\ Cardinality(ProxyEvents("ProxyTimeout")) = ProxyRetryLimit

\* C9: after a request failed with a timeout or a DNS lookup error, at
\* whichever strategy, the crawl ended with ProxyTimeout; when that crawl
\* went through a proxy the call has not ended: it is in its backoff, at the
\* loop head, at a reachability check or past the loop
C9_TimeoutClassified ==
    last.kind \in TimeoutTypes =>
        \/ crawl.st = "ProxyTimeout" /\ stage = {}
        \/ /\ crawl.st = "none"
           /\ spider_proxy # None
           /\ ProxyEvents("ProxyTimeout") # {}
           /\ pc \in {"backoff", "loop", "reach", "after_loop"}
           /\ outcome.kind = "none"
        \/ /\ crawl.st = "none"
           /\ spider_proxy = None
           /\ pc = "done"

C9_Witness ==
    /\ last.kind = "DNSLookupError"
    /\ last.callback = "parse_legacy_json"
    /\ spider_proxy # None
    /\ pc = "reach"
    /\ proxy_attempts = 2

\* C10: at most one thread is inside get_next_host or mark_bad; when a
\* get_next_host call is about to return, the ring and its result are those
\* of the whole call applied to the state it found and the cooldown map is
\* untouched; when a mark_bad call is about to return, the map is the one
\* it found with its entry written and the ring is untouched
C10_Atomic ==
    /\ Cardinality({t \in Threads : tpc[t] # "idle"}) <= 1
    /\ \A t \in Threads :
         tpc[t] = "ret" =>
            IF tloc[t].op = "get_next_host"
            THEN LET r == get_next_host(tloc[t].spool, tloc[t].sbad,
                                        tloc[t].now, tloc[t].listing)
                 IN  /\ pool = r.pool
                     /\ tloc[t].ret = r.ret
                     /\ bad_hosts = tloc[t].sbad
            ELSE /\ pool = tloc[t].spool
                 /\ bad_hosts = mark_bad(tloc[t].sbad, tloc[t].host,
                                         tloc[t].dur, tloc[t].now)

C10_Witness ==
    \E t \in Threads :
        /\ tpc[t] = "ret"
        /\ tloc[t].op = "get_next_host"
        /\ tloc[t].attempts >= 2
        /\ tloc[t].ret # None
        /\ \E u \in Threads \ {t} : tpc[u] = "idle"
        /\ DOMAIN bad_hosts # {}

Expired(b, h, n) == h \notin DOMAIN b \/ b[h] <= n

\* the ring p with the cursor moved past its k-th entry
CursorAfter(p, k) == SubSeq(p, k + 1, Len(p)) \o SubSeq(p, 1, k)

\* get_next_host calls of the threads that are about to return
Returning ==
    {t \in Threads : tpc[t] = "ret" /\ tloc[t].op = "get_next_host"}

\* C12: when some host of the ring a get_next_host call found is out of
\* cooldown at the time the call read, the call returns the first such host
\* counted from the cursor and leaves the cursor right after it
C12_FirstExpired ==
    \A t \in Returning :
        LET sp == tloc[t].spool
            free == {i \in DOMAIN sp : Expired(tloc[t].sbad, sp[i], tloc[t].now)}
        IN  free # {} =>
              LET k == CHOOSE i \in free : \A j \in free : i <= j
              IN  /\ tloc[t].ret = sp[k]
                  /\ pool = CursorAfter(sp, k)

C12_Witness ==
    \E t \in Returning :
        LET sp == tloc[t].spool
        IN  /\ Len(sp) = 2 /\ sp[1] # sp[2]
            /\ ~Expired(tloc[t].sbad, sp[1], tloc[t].now)
            /\ Expired(tloc[t].sbad, sp[2], tloc[t].now)
            /\ tloc[t].ret = sp[2]
            /\ pool = sp

\* the ring holds three distinct hosts, and none was in cooldown when the
\* recorded get_next_host calls began
RingOfThree ==
    /\ Len(pool) = 3
    /\ Cardinality({pool[i] : i \in DOMAIN pool}) = 3
    /\ returns.hosts # <<>>
    /\ \A i \in DOMAIN pool : Expired(bad_hosts, pool[i], returns.start)

\* C13: on a ring of three distinct hosts, none in cooldown, with no
\* mark_bad in between: among any N consecutive get_next_host results each
\* host occurs at least N \div 3 times, and between two results that are
\* the same host both other hosts occur
C13_RingFairness ==
    RingOfThree =>
        LET rs == returns.hosts
            ring == {pool[i] : i \in DOMAIN pool}
        IN  \A i, j \in DOMAIN rs :
                i <= j =>
                  /\ \A h \in ring :
                       Cardinality({k \in i..j : rs[k] = h}) >= (j - i + 1) \div 3
                  /\ (i < j /\ rs[i] = rs[j]) =>
                       \A h \in ring : \E k \in i..j : rs[k] = h

C13_Witness ==
    /\ RingOfThree
    /\ Len(returns.hosts) = MaxReturns
    /\ DOMAIN bad_hosts # {}
    /\ returns.start > 0

\* C14: when a get_next_host call found a non-empty ring with every host
\* in cooldown, it refreshed the pool, and it returns None or a host that
\* is out of cooldown
C14_RefreshWhenAllCooling ==
    \A t \in Returning :
        LET sp == tloc[t].spool
        IN  (sp # <<>> /\ \A i \in DOMAIN sp :
                            ~Expired(tloc[t].sbad, sp[i], tloc[t].now))
            => /\ tloc[t].refreshed
               /\ \/ tloc[t].ret = None
                  \/ Expired(bad_hosts, tloc[t].ret, tloc[t].now)

\* C15: after a refresh whose listing failed or was empty the call has
\* raised nothing, the ring is empty as it was and the cooldown map is
\* empty as it was, get_next_host returned None, and the next thing the
\* call does is the direct crawl
C15_RefreshFailureNonFatal ==
    \A i \in DOMAIN trace :
        trace[i].e = "refresh_empty" =>
          /\ pool = <<>> /\ bad_hosts = <<>>
          /\ i < Len(trace) /\ trace[i + 1] = Event("no_host", None)
          /\ IF i + 1 = Len(trace)
             THEN pc = "after_loop" /\ outcome.kind = "none"
             ELSE trace[i + 2] = Event("run", None)

C15_Witness ==
    /\ Len(trace) = 3
    /\ trace[1].e = "refresh_empty"
    /\ pc = "direct_run"
    /\ crawl.st = "running"

\* C16: a mark_bad(h, d) call writes now + d as the deadline of h; a second
\* call at the same time with the same d changes nothing; and the deadline
\* it writes is never earlier than the one h had
C16_MarkBadExtends ==
    [][\A t \in Threads :
          (tpc[t] = "write" /\ tpc'[t] = "ret") =>
            LET h == tloc[t].host
                d == tloc[t].dur
            IN  /\ bad_hosts'[h] = now + d
                /\ mark_bad(bad_hosts', h, d, now) = bad_hosts'
                /\ h \in DOMAIN bad_hosts => bad_hosts'[h] >= bad_hosts[h]]_vars

\* C17: after a response 200 with an empty body was handed to the mobile API
\* (web API, legacy JSON) callback, the crawl is running with exactly the
\* request of the web API (legacy JSON, profile page) in flight, every
\* strategy up to that one was requested in order, and there is no record
C17_EscalatesOnEmpty ==
    \A k \in 1..3 :
        last = Handed(Strategies[k], 200, "blank") =>
          /\ crawl.st = "running"
          /\ stage = {Request(Strategies[k + 1], spider_proxy)}
          /\ Len(requested) = k + 1
          /\ \A i \in 1..(k + 1) : requested[i].callback = Strategies[i]
          /\ result_buffer = <<>>

C17_Witness ==
    /\ last = Handed("parse_legacy_json", 200, "blank")
    /\ stage = {Request("parse_html", None)}
    /\ Len(requested) = 4
    /\ ProxyEvents("run") # {}

\* the profile page was answered, with a status other than 404 and 429
HtmlAnswered ==
    /\ last.callback = "parse_html"
    /\ last.status \notin {404, 429}
    /\ last.kind \in {"noblob", "nouser", "emptypage", "user"}

\* C18: after the profile page was answered, a record in the buffer has a
\* non-zero follower count or a picture URL; without a record the crawl
\* ended with ProfileNotFound "Unable to extract data", and when the call
\* has ended it raised ProfileNotFoundError with that reason
C18_HtmlRecordNeedsData ==
    HtmlAnswered =>
        IF result_buffer # <<>>
        THEN \/ result_buffer[1].followers # 0
             \/ result_buffer[1].profile_picture_url # NoVal
        ELSE \/ crawl = Crawl("ProfileNotFound", "Unable to extract data")
             \/ /\ crawl.st = "none" /\ pc = "done"
                /\ outcome.kind = "ProfileNotFoundError"
                /\ outcome.reasons = <<Reason("Unable to extract data", None)>>

\* C19: after the legacy endpoint answered 200 with a body: when the body
\* was no JSON or held no user (an empty items list included) the profile
\* page is requested and the crawl goes on; when it held a user, the record
\* is built from the first of graphql.user, data.user, items[0].user
C19_LegacyFirstPopulated ==
    (last.callback = "parse_legacy_json" /\ last.status = 200) =>
        CASE last.kind \in {"notjson", "nouser"} ->
               /\ crawl.st = "running"
               /\ stage = {Request("parse_html", spider_proxy)}
               /\ result_buffer = <<>>
          [] last.kind = "user_full" ->
               result_buffer = <<[biography |-> "bio", followers |-> 7,
                                  profile_picture_url |-> "hd"]>>
          [] last.kind = "user_zero" ->
               result_buffer = <<[biography |-> "bio", followers |-> 0,
                                  profile_picture_url |-> NoVal]>>
          [] OTHER -> TRUE

\* C20: in a call on a ring of one host that began by selecting the host,
\* finding it unreachable and marking it bad, the clock not having jumped
\* past the cooldown: the host is in the cooldown map, it was selected
\* once, the next get_next_host returned None and the direct crawl came
\* right after
C20_SingleUnreachableHost ==
    (/\ Len(pool) = 1
     /\ ticks = 0
     /\ Len(trace) >= 3
     /\ trace[1] = Event("select", pool[1])
     /\ trace[2] = Event("unreachable", pool[1])
     /\ trace[3] = Event("mark_bad", pool[1]))
    => /\ pool[1] \in DOMAIN bad_hosts
       /\ Cardinality(ProxyEvents("select")) = 1
       /\ Len(trace) >= 4 => trace[4] = Event("no_host", None)
       /\ Len(trace) >= 5 => trace[5] = Event("run", None)

\* the record of the full user object
FullRecord ==
    [biography |-> "bio", followers |-> 7, profile_picture_url |-> "hd"]

\* the call found no configured host and the listing gave none, and the
\* mobile API answered 200 with the full user object
NoProxyFullUser ==
    /\ trace # <<>>
    /\ trace[1] = Event("refresh_empty", None)
    /\ last.callback = "parse_mobile_api"
    /\ last.status = 200
    /\ last.kind = "user"
    /\ last.user = FullUser

\* C21: with no configured host, a listing that gives none and a direct
\* mobile API response 200 with the full user object, the call selected no
\* host, probed none, marked none, made exactly one request (without a
\* proxy), and the record it holds and returns has the user object's fields
C21_DirectOnly ==
    NoProxyFullUser =>
        /\ proxy_attempts = 0
        /\ ProxyEvents("select") = {} /\ ProxyEvents("run") = {}
        /\ NetOp("probe", Inline) \notin netops
        /\ bad_hosts = <<>>
        /\ requested = <<[callback |-> "parse_mobile_api", proxy |-> None]>>
        /\ stage = {}
        /\ result_buffer = <<FullRecord>>
        /\ pc = "done" => outcome = Outcome("record", FullRecord, <<>>)

C21_Witness ==
    /\ NoProxyFullUser
    /\ pc = "done"
    /\ outcome.kind = "record"

\* C22: ProfileNotFoundError is answered with 404 and RateLimitError with
\* 429, without a row of the store; ScraperRuntimeError is answered with the
\* row of the handle stored last, flagged is_cached, when the handle has a
\* row, and with 500 when it has none; a fresh record that is returned is
\* the last row of the store and is not flagged is_cached
C22_ServingLayer ==
    LET rows == {i \in DOMAIN store : store[i].username = served.handle}
    IN  /\ served.result = "ProfileNotFoundError" =>
              served.status = 404 /\ served.row = 0
        /\ served.result = "RateLimitError" =>
              served.status = 429 /\ served.row = 0
        /\ served.result = "ScraperRuntimeError" =>
              IF rows = {} THEN served.status = 500 /\ served.row = 0
              ELSE /\ served.status = 200 /\ served.is_cached
                   /\ served.row \in rows
                   /\ \A i \in rows : i <= served.row
        /\ (served.result = "record" /\ served.status = 200) =>
              /\ served.row = Len(store) /\ served.row > 0
              /\ ~served.is_cached

\* C23: after the mobile or web API answered 200 with a user object there
\* is a record whose follower count is a natural number: 0 when
\* edge_followed_by is absent, null or holds no number, and the count
\* otherwise
C23_FollowersNormalised ==
    (/\ last.callback \in {"parse_mobile_api", "parse_api_v1"}
     /\ last.status = 200
     /\ last.kind \in {"user", "user_nan"})
    => /\ result_buffer # <<>>
       /\ result_buffer[1].followers \in Nat
       /\ last.user.edge_followed_by \in {"absent", "null", "nan", "0"}
            => result_buffer[1].followers = 0
       /\ last.user.edge_followed_by = "7" => result_buffer[1].followers = 7

\* C24: no record in the buffer, whichever strategy made it, has the empty
\* string as its biography
C24_BiographyNotBlank ==
    \A i \in DOMAIN result_buffer : result_buffer[i].biography # ""

\* C25: data.username of every answer with a record is lowercase and does
\* not begin with '@'
C25_HandleNormalised ==
    served.status = 200 =>
        /\ \A i \in DOMAIN served.name : served.name[i] \in {"a", "@", " "}
        /\ served.name # <<>> => served.name[1] # "@"

\* how an attempt through a proxy ends when mark_bad is due
MarkCauses == {"unreachable", "ProxyTimeout", "Other", "RateLimited"}

\* C26: in the trace of a call every unreachable host and every crawl
\* through a proxy that ended with ProxyTimeout, an unexpected exception or
\* RateLimited is followed at once by mark_bad of that host; every mark_bad
\* follows such an event of the same host; nothing else (a crawl that
\* succeeded or ended with ProfileNotFound, any step of the direct attempt)
\* is followed by mark_bad; and the cooldown map holds the marked hosts
C26_MarkBadExactly ==
    /\ \A i \in DOMAIN trace :
         /\ (trace[i].e \in MarkCauses /\ trace[i].h # None) =>
               /\ i < Len(trace)
               /\ trace[i + 1] = Event("mark_bad", trace[i].h)
         /\ trace[i].e = "mark_bad" =>
               /\ i > 1
               /\ trace[i].h # None
               /\ trace[i - 1].e \in MarkCauses
               /\ trace[i - 1].h = trace[i].h
         /\ (trace[i].e \in {"break", "ProfileNotFound"} \/ trace[i].h = None) =>
               (i < Len(trace) => trace[i + 1].e # "mark_bad")
    /\ DOMAIN bad_hosts = {trace[i].h : i \in ProxyEvents("mark_bad")}

C26_Witness ==
    /\ ProxyEvents("unreachable") # {}
    /\ ProxyEvents("RateLimited") # {}
    /\ pc = "done"
    /\ Cardinality(DOMAIN bad_hosts) = 2

\* what may come after the loop continues: a selection (with or without a
\* failed refresh before it), or the direct crawl when the budget is used up
AfterContinue(ev) ==
    \/ ev.e \in {"select", "no_host", "refresh_empty"}
    \/ ev = Event("run", None)

\* C27: after a crawl through a proxy ended with ProxyTimeout or an
\* unexpected exception the trace goes on with mark_bad, one sleep, and then
\* the next selection; after an unreachable host with mark_bad and then the
\* next selection, no sleep; and every crawl through a proxy comes right
\* after the selection of that host, so never after its failed check
C27_BackoffOrder ==
    \A i \in DOMAIN trace :
        /\ (trace[i].e \in {"ProxyTimeout", "Other"} /\ trace[i].h # None) =>
              /\ i < Len(trace)
              /\ trace[i + 1] = Event("mark_bad", trace[i].h)
              /\ IF Len(trace) = i + 1 THEN pc = "backoff"
                 ELSE /\ trace[i + 2] = Event("sleep", trace[i].h)
                      /\ Len(trace) = i + 2 => pc \in {"loop", "after_loop"}
                      /\ Len(trace) > i + 2 => AfterContinue(trace[i + 3])
        /\ trace[i].e = "unreachable" =>
              /\ i < Len(trace)
              /\ trace[i + 1] = Event("mark_bad", trace[i].h)
              /\ Len(trace) = i + 1 => pc \in {"loop", "after_loop"}
              /\ Len(trace) > i + 1 => AfterContinue(trace[i + 2])
        /\ (trace[i].e = "run" /\ trace[i].h # None) =>
              /\ i > 1
              /\ trace[i - 1] = Event("select", trace[i].h)

C27_Witness ==
    /\ Len(trace) >= 6
    /\ trace[3].e = "ProxyTimeout"
    /\ trace[5].e = "sleep"
    /\ trace[6].e = "select"
    /\ ProxyEvents("unreachable") # {}

\* C28: when a get_next_host call is about to return, the cooldown map is
\* the one it found, and the ring is the ring it found, with the hosts of a
\* refresh appended, in the same cyclic order: only the cursor has moved
C28_SelectionKeepsRing ==
    \A t \in Returning :
        LET ring == tloc[t].spool \o tloc[t].listing
        IN  /\ bad_hosts = tloc[t].sbad
            /\ \E k \in 0..Len(ring) : pool = CursorAfter(ring, k)

C28_Witness ==
    \E t \in Returning :
        LET sp == tloc[t].spool
        IN  /\ Len(sp) = 2 /\ sp[1] # sp[2]
            /\ \A i \in DOMAIN sp : ~Expired(tloc[t].sbad, sp[i], tloc[t].now)
            /\ tloc[t].ret # None

\* C29: the step of mark_bad(h, d) that writes the deadline leaves the ring
\* and its cursor as they are, and adds, removes or changes the entry of no
\* host other than h
C29_MarkBadFrame ==
    [][\A t \in Threads :
          (tpc[t] = "write" /\ tpc'[t] = "ret") =>
            /\ pool' = pool
            /\ \A h \in Hosts \ {tloc[t].host} :
                 /\ h \in DOMAIN bad_hosts' <=> h \in DOMAIN bad_hosts
                 /\ h \in DOMAIN bad_hosts => bad_hosts'[h] = bad_hosts[h]]_vars

C29_Witness ==
    \E t \in Threads :
        /\ tpc[t] = "ret"
        /\ tloc[t].op = "mark_bad"
        /\ pool # <<>>
        /\ \A i \in DOMAIN pool : pool[i] # tloc[t].host
        /\ DOMAIN tloc[t].sbad \ {tloc[t].host} # {}
        /\ tloc[t].host \in DOMAIN bad_hosts

\* C30: every request of a crawl, in flight or made earlier, carries the
\* proxy of the crawl: the selected host during an attempt through a proxy,
\* none during the direct attempt
C30_ProxyBinding ==
    /\ \A rq \in stage : rq.proxy = spider_proxy
    /\ \A i \in DOMAIN requested : requested[i].proxy = spider_proxy
    /\ pc = "proxy_run" => (spider_proxy = host /\ host # None)
    /\ pc = "direct_run" => spider_proxy = None

C30_Witness ==
    /\ pc = "proxy_run"
    /\ spider_proxy = "B"
    /\ Len(requested) = 3
    /\ \E rq \in stage : rq.callback = "parse_legacy_json" /\ rq.proxy = "B"

\* C31: every chain run ends in exactly one way: with one record appended to
\* the result buffer and nothing raised, or with ProfileNotFound,
\* RateLimited, ProxyTimeout or another exception raised and nothing
\* appended; no run returns normally with an empty buffer.  So after the
\* break that follows a proxy run that raised nothing the buffer holds
\* exactly one record, the final check of lines 157-162 always finds one
\* record, and a ProfileNotFoundError of the call always comes from an
\* except clause, never from the empty-buffer branch.
C31_RunEndsDecided ==
    /\ Finished(crawl.st) => stage = {}
    /\ crawl.st = "ok" => Len(result_buffer) = 1
    /\ (Finished(crawl.st) /\ crawl.st # "ok") => result_buffer = <<>>
    /\ (\E i \in DOMAIN trace : trace[i].e = "break")
          => Len(result_buffer) = 1
    /\ pc = "final" => Len(result_buffer) = 1
    /\ (pc = "done" /\ outcome.kind = "ProfileNotFoundError")
          => /\ Len(trace) >= 2
             /\ trace[Len(trace)].e = "raise"
             /\ trace[Len(trace) - 1].e \in {"ProfileNotFound", "Other"}
             /\ \A i \in DOMAIN outcome.reasons :
                    outcome.reasons[i].what # "No data returned"

\* the second proxy run went through all four strategies and raised
\* nothing: the loop was left by the break and the final check is reached
\* with the one record of that run
C31_Witness ==
    /\ pc = "final"
    /\ Len(trace) >= 1 /\ trace[Len(trace)].e = "break"
    /\ proxy_attempts = 2
    /\ Len(result_buffer) = 1
    /\ last.callback = "parse_html"

SpecFair == Spec /\ WF_vars(Next)

\* a thread inside get_next_host or mark_bad keeps running
SpecPoolFair ==
    SpecPool /\ \A t \in Threads :
                   WF_vars(GnhLoop(t) \/ GnhAfter(t) \/ MbWrite(t)
                           \/ PoolReturn(t))

\* C33: provided every chain run and every reachability probe ends, a
\* scrape_instagram_profile call ends, and it ends with a record or with
\* ProfileNotFoundError, RateLimitError or ScraperRuntimeError.
C33_CallTerminates ==
    <>(/\ pc = "done"
       /\ outcome.kind \in {"record", "ProfileNotFoundError",
                            "RateLimitError", "ScraperRuntimeError"})

\* C33, the part that the code keeps: the call ends
C33_CallEnds == <>(pc = "done")

\* C33, the part that the code keeps: a get_next_host call inspects at most
\* len(ring) + 1 endpoints, whatever is in cooldown
C33_ScanBounded ==
    \A t \in Threads :
        tloc[t].op = "get_next_host" =>
            tloc[t].attempts <= tloc[t].max_attempts + 1

\* C33, the part that the code keeps: a thread that holds the lock gives it
\* back, also while the other thread keeps asking for it
C33_LockReleased ==
    \A t \in Threads : (lock = t) ~> (lock # t)

====
